---- MODULE Spec2Model ----
(***************************************************************************)
(* A model of trybuild's test-execution engine (src/run.rs): glob          *)
(* expansion, preparation of the throwaway project, the sequential loop    *)
(* over the expanded tests with the pass / compile-fail policy, the        *)
(* golden-fixture comparison and bootstrap, and the final tally.           *)
(*                                                                         *)
(* The collaborators that run.rs calls but does not define (cargo::*,      *)
(* toml::to_string, the filesystem, the environment, glob::glob) are the   *)
(* environment: each call draws its outcome from the outcomes its type     *)
(* allows.  Every external effect is appended to the log `events`.         *)
(***************************************************************************)
EXTENDS Integers, Sequences, FiniteSets, TLC

VARIABLES
    tests,      \* Runner.tests: the declared specs, in declaration order
    deps,       \* Runner.deps: the extra dependency declarations, by name
    srcs,       \* filesystem: the test source files that exist
    files,      \* filesystem: content of every *.stderr path
    pc,         \* position in Runner::run
    expanded,   \* `tests` of Runner::run: the result of expand_globs
    idx,        \* 1-based position of the for loop in `expanded`
    failures,   \* `failures` of Runner::run
    outcome,    \* result of each executed test, in execution order
    last,       \* locals of the most recent Test::run / check_*
    project,    \* files of the throwaway project written so far
    panicMsg,   \* the panic Runner::run ended with, if any
    events,     \* log of external effects, in program order
    files0,     \* `files` as it was when the run began
    runNo,      \* which run of the harness this is
    promoted    \* the staged file the developer promoted to a fixture

vars == <<tests, deps, srcs, files, pc, expanded, idx, failures, outcome,
          last, project, panicMsg, events, files0, runNo, promoted>>

----------------------------------------------------------------------------
(* Bounds of the model *)

MaxTests == 2       \* declared tests, and expanded tests, of a run
MaxLen == 2         \* characters of a text, when the run has at most one test
MaxLenMany == 1     \* characters of a text, when the run has several tests
MaxRuns == 2        \* runs of the harness over the same declarations
MaxSpecs == 3       \* declared tests, when only the expansion is looked at
MaxDeps == 2        \* extra dependency declarations

----------------------------------------------------------------------------
(* Text: diagnostics and fixture contents are strings over a small alphabet *)

CR == "CR"
LF == "LF"
Chars == {"e", CR, LF}

SeqUpTo(S, n) == UNION {[1..k -> S] : k \in 0..n}

(* the texts of a run of n expanded tests *)
Text(n) == SeqUpTo(Chars, IF n <= 1 THEN MaxLen ELSE MaxLenMany)

(* str::replace("\r\n", "\n"): left to right, non-overlapping *)
ReplaceCRLF(s) ==
    LET F[i \in 1..(Len(s) + 1)] ==
            IF i > Len(s) THEN <<>>
            ELSE IF s[i] = CR /\ i < Len(s) /\ s[i + 1] = LF
                 THEN <<LF>> \o (IF i + 2 > Len(s) THEN <<>> ELSE F[i + 2])
                 ELSE <<s[i]>> \o F[i + 1]
    IN  F[1]

(* str::replace("\n", "\r\n") *)
ReplaceLFbyCRLF(s) ==
    LET F[i \in 0..Len(s)] ==
            IF i = 0 THEN <<>>
            ELSE F[i - 1] \o (IF s[i] = LF THEN <<CR, LF>> ELSE <<s[i]>>)
    IN  F[Len(s)]

(* normalize::diagnostics: the canonical form of raw build-tool stderr.    *)
(* Line endings are unified to LF until none is left to unify, so that     *)
(* normalizing is idempotent.                                              *)
RECURSIVE UnifyLineEndings(_)
UnifyLineEndings(s) ==
    IF ReplaceCRLF(s) = s THEN s ELSE UnifyLineEndings(ReplaceCRLF(s))

NormalizeDiagnostics(raw) == UnifyLineEndings(raw)

----------------------------------------------------------------------------
(* Paths.  A path is its directory, the stem of its file name and its      *)
(* extension; every path of the model has a file name.                     *)

Dirs == {"tests", "wip"}
Stems == {"a-b", "a_b"}
StemOrder == <<"a-b", "a_b">>       \* byte order, the order glob yields

Path(d, s, e) == [dir |-> d, stem |-> s, ext |-> e]

SrcPaths == {Path(d, s, "rs") : d \in Dirs, s \in Stems}
StderrPaths == {Path(d, s, "stderr") : d \in Dirs, s \in Stems}

(* the wildcard specs: a well-formed pattern and a malformed one *)
GoodPattern == Path("tests", "*", "rs")
BadPattern == Path("tests", "***", "rs")
Patterns == {GoodPattern, BadPattern}

Expected == {"Pass", "CompileFail"}
TestSpecs == [path : SrcPaths \cup Patterns, expected : Expected]

(* Path::with_extension("stderr") *)
WithExtensionStderr(path) == [path EXCEPT !.ext = "stderr"]

(* Path::new("wip").join(stderr_path.file_name()) *)
WipDir == "wip"
WipPathBuggy(stderr_path) == stderr_path
WipPath(stderr_path) == [stderr_path EXCEPT !.dir = WipDir]

(* Test::name: the file stem with '-' replaced by '_' *)
TestName(test) ==
    IF test.path.stem = "a-b" THEN "a_b" ELSE test.path.stem

(* utf8.contains('*') *)
ContainsStar(path) == path.stem \in {"*", "***"}

(* the nested fn glob: the matches of a pattern in byte order, or an error *)
GlobOk(pattern) == pattern.stem = "*"
GlobMatches(pattern, fs) ==
    LET hit(i) == Path(pattern.dir, StemOrder[i], pattern.ext) \in fs
        F[i \in 0..Len(StemOrder)] ==
            IF i = 0 THEN <<>>
            ELSE IF hit(i)
                 THEN Append(F[i - 1], Path(pattern.dir, StemOrder[i], pattern.ext))
                 ELSE F[i - 1]
    IN  F[Len(StemOrder)]

NoError == "None"

(* what one spec contributes to the expanded list *)
ExpandOneBuggy(test, fs) ==
    IF ContainsStar(test.path)
    THEN IF GlobOk(test.path) /\ GlobMatches(test.path, fs) # <<>>
         THEN LET paths == GlobMatches(test.path, fs)
              IN  [i \in 1..Len(paths) |->
                     [test |-> [path |-> paths[i], expected |-> test.expected],
                      error |-> NoError]]
         ELSE IF GlobOk(test.path) THEN <<[test |-> test, error |-> NoError]>>
         ELSE <<[test |-> test, error |-> "Pattern"]>>
    ELSE <<[test |-> test, error |-> NoError]>>
ExpandOne(test, fs) ==
    IF ContainsStar(test.path)
    THEN IF GlobOk(test.path)
         THEN LET paths == GlobMatches(test.path, fs)
              IN  [i \in 1..Len(paths) |->
                     [test |-> [path |-> paths[i], expected |-> test.expected],
                      error |-> NoError]]
         ELSE <<[test |-> test, error |-> "Pattern"]>>
    ELSE <<[test |-> test, error |-> NoError]>>

expand_globs_Buggy(ts, fs) ==
    LET F[i \in 0..Len(ts)] ==
            IF i = 0 THEN <<>>
            ELSE IF ContainsStar(ts[i].path) \/ ts[i].path \in fs
                 THEN F[i - 1] \o ExpandOne(ts[i], fs)
                 ELSE F[i - 1]
    IN  F[Len(ts)]
expand_globs(ts, fs) ==
    LET F[i \in 0..Len(ts)] ==
            IF i = 0 THEN <<>> ELSE F[i - 1] \o ExpandOne(ts[i], fs)
    IN  F[Len(ts)]

----------------------------------------------------------------------------
(* The filesystem's *.stderr files *)

NoFile == [exists |-> FALSE, utf8 |-> FALSE, text |-> <<>>]
NotUtf8 == [exists |-> TRUE, utf8 |-> FALSE, text |-> <<>>]  \* fs::read_to_string fails
TextFile(t) == [exists |-> TRUE, utf8 |-> TRUE, text |-> t]
Contents(n) == {NoFile, NotUtf8} \cup {TextFile(t) : t \in Text(n)}

(* The log of external effects *)
NoPath == Path("", "", "")
Ev(op, i, path, text) ==
    [op |-> op, test |-> i, path |-> path, name |-> "", text |-> text]
EvCargo(op, i, name) ==
    [op |-> op, test |-> i, path |-> NoPath, name |-> name, text |-> <<>>]

EventsOf(evs, i) == {k \in 1..Len(evs) : evs[k].test = i}
Count(evs, op, i) == Cardinality({k \in EventsOf(evs, i) : evs[k].op = op})

----------------------------------------------------------------------------
(* One test execution.  A call to a collaborator has every outcome its     *)
(* type allows, so each function below yields the set of results it can    *)
(* end with.  A result is the Result the function returns (kind: "Ok" or   *)
(* the Error variant), the effects it had (evs, files) and what it saw on  *)
(* the way: whether cargo::build_test returned an output (built), the      *)
(* output's status, stderr and normalized stderr (success, raw, stderr),   *)
(* how                                                                     *)
(* cargo::run_test answered (ran), and the fixture as stderr_path.exists() *)
(* found it (looked, fixture).                                             *)

Result(fs) ==
    [kind |-> "Ok", evs |-> <<>>, files |-> fs,
     built |-> FALSE, success |-> FALSE, raw |-> <<>>, stderr |-> <<>>,
     ran |-> "no",
     fixture |-> NoFile, looked |-> FALSE]

Failed(r, kind) == [r EXCEPT !.kind = kind]
Did(r, ev) == [r EXCEPT !.evs = Append(@, ev)]

(* check_exists: Ok iff the path exists *)
check_exists_Buggy(path, fs) == TRUE
check_exists(path, fs) == path \in fs

(* Test::check_pass, lines 188-196: cargo::run_test answers Err, or an     *)
(* output whose status is success, or one whose status is not              *)
RunBinaryBuggy(i, test, r) ==
    LET ran == Did(r, EvCargo("run_test", i, TestName(test)))
    IN  {Failed([ran EXCEPT !.ran = "err"], "Cargo"),
         [ran EXCEPT !.ran = "ok"],
         [ran EXCEPT !.ran = "fail"]}
RunBinary(i, test, r) ==
    LET ran == Did(r, EvCargo("run_test", i, TestName(test)))
    IN  {Failed([ran EXCEPT !.ran = "err"], "Cargo"),
         [ran EXCEPT !.ran = "ok"],
         Failed([ran EXCEPT !.ran = "fail"], "RunFailed")}

(* Test::check_pass *)
check_pass_Buggy(i, test, r) == IF ~r.success THEN {r} ELSE RunBinary(i, test, r)
check_pass(i, test, r) ==
    IF ~r.success
    THEN {Failed(r, "CargoFail")}
    ELSE RunBinary(i, test, r)

(* fs::write(wip_path, stderr): the file cannot be created (written = -1), *)
(* or `written` characters reach it before an error, or all of them do     *)
FsWriteAppend(old, text, written) ==
    IF written < 0 THEN old
    ELSE IF written >= Len(text) THEN TextFile(old.text \o text)
    ELSE TextFile(old.text \o SubSeq(text, 1, written))
FsWrite(old, text, written) ==
    IF written < 0 THEN old
    ELSE IF written >= Len(text) THEN TextFile(text)
    ELSE TextFile(SubSeq(text, 1, written))
FsWriteOk(text, written) == written >= Len(text)

(* Test::check_compile_fail, lines 208-216: the bootstrap of a fixture *)
BootstrapBuggy(i, stderr_path, r) == {Failed(r, "Mismatch")}
Bootstrap(i, stderr_path, r) ==
    LET r2 == Did(r, Ev("create_dir_all_wip", i, Path(WipDir, "", ""), <<>>))
        wip_path == WipPath(stderr_path)
        wrote(n) == [Did(r2, Ev("write_wip", i, wip_path, r.stderr))
                        EXCEPT !.files[wip_path] = FsWrite(@, r.stderr, n)]
    IN  {Failed(r2, "Io")}
        \cup {IF FsWriteOk(r.stderr, n) THEN wrote(n)
              ELSE Failed(wrote(n), "WriteStderr") : n \in -1..Len(r.stderr)}

(* Test::check_compile_fail, lines 221-223: the fixture's text, with CRLF  *)
(* replaced by LF, against the normalized diagnostics                      *)
FixtureMatchesRaw(fixtureText, stderr) == fixtureText = stderr
FixtureMatchesSwapped(fixtureText, stderr) ==
    ReplaceLFbyCRLF(fixtureText) = stderr
FixtureMatches(fixtureText, stderr) == ReplaceCRLF(fixtureText) = stderr

(* Test::check_compile_fail, lines 219-229: the comparison with a fixture *)
Compare(i, stderr_path, r) ==
    LET r2 == Did(r, Ev("read_fixture", i, stderr_path, <<>>))
    IN  IF ~r.fixture.utf8 THEN {Failed(r2, "ReadStderr")}
        ELSE IF FixtureMatches(r.fixture.text, r.stderr) THEN {r2}
        ELSE {Failed(r2, "Mismatch")}

(* Test::check_compile_fail, lines 206-230: what follows a failed build *)
FixtureCheck(i, test, r) ==
    LET stderr_path == WithExtensionStderr(test.path)
        r1 == [Did(r, Ev("stat_fixture", i, stderr_path, <<>>))
                  EXCEPT !.fixture = r.files[stderr_path], !.looked = TRUE]
    IN  IF ~r1.fixture.exists
        THEN Bootstrap(i, stderr_path, r1)
        ELSE Compare(i, stderr_path, r1)

(* Test::check_compile_fail *)
check_compile_fail_Buggy(i, test, r) == FixtureCheck(i, test, r)
check_compile_fail(i, test, r) ==
    IF r.success
    THEN {Failed(r, "ShouldNotHaveCompiled")}
    ELSE FixtureCheck(i, test, r)

(* what cargo::build_test can return as Ok(output) *)
BuildOutputs == [success : BOOLEAN, raw : Text(Len(expanded))]

(* Test::run, lines 174-179: the dispatch on self.expected *)
Check(i, test, r) ==
    IF test.expected = "Pass" THEN check_pass(i, test, r)
    ELSE check_compile_fail(i, test, r)

(* Test::run *)
TestRun(i, test, fs, files_) ==
    LET r0 == Did(Result(files_), Ev("begin_test", i, test.path, <<>>))
        r1 == Did(r0, EvCargo("build_test", i, TestName(test)))
        built(o) == [r1 EXCEPT !.built = TRUE, !.success = o.success,
                               !.raw = o.raw,
                               !.stderr = NormalizeDiagnostics(o.raw)]
    IN  IF ~check_exists(test.path, fs) THEN {Failed(r0, "Open")}
        ELSE {Failed(r1, "Cargo")}
             \cup UNION {Check(i, test, built(o)) : o \in BuildOutputs}

(* ExpandedTest::run *)
ExpandedTestRunBuggy(i, e, fs, files_) == TestRun(i, e.test, fs, files_)
ExpandedTestRun(i, e, fs, files_) ==
    IF e.error = NoError
    THEN TestRun(i, e.test, fs, files_)
    ELSE {Failed(Did(Result(files_), Ev("begin_test", i, e.test.path, <<>>)),
                 e.error)}

----------------------------------------------------------------------------
(* Runner::prepare and Runner::make_manifest *)

CrateName == "mycrate"
ManifestDir == "/proj"
ProjectName == "mycrate-tests"        \* format!("{}-tests", crate_name)

(* the steps of prepare that can fail, in program order *)
PrepareStepsBuggy ==
    <<"target_dir", "CARGO_PKG_NAME", "CARGO_MANIFEST_DIR", "manifest_toml",
      "config_toml", "create_dir_all", "write_config", "write_manifest",
      "build_dependencies", "write_main">>
PrepareSteps ==
    <<"target_dir", "CARGO_PKG_NAME", "CARGO_MANIFEST_DIR", "manifest_toml",
      "config_toml", "create_dir_all", "write_config", "write_manifest",
      "write_main", "build_dependencies">>
NSteps == Len(PrepareSteps)

(* the steps whose call has an effect outside the process *)
Effectful ==
    {"create_dir_all", "write_config", "write_manifest", "write_main",
     "build_dependencies"}

(* the extra dependency declarations: Runner.deps maps a name to a        *)
(* Dependency (version, path; `rest` is copied through and left out)       *)
DepNames == {CrateName, "serde"}
DepOrder == <<CrateName, "serde">>      \* key order of the BTreeMap
Dependency == [version : {"None", "1"}, path : {"None", "rel", "/abs"}]
NoDeps == <<>>
DepsUpTo(n) ==
    UNION {[D -> Dependency] : D \in {E \in SUBSET DepNames : Cardinality(E) <= n}}

(* PathBuf::join: an absolute path replaces the base *)
Join(base, p) == IF p = "/abs" THEN <<p>> ELSE <<base, p>>

(* Map::insert: a later insert under the same key replaces the entry *)
Insert(m, k, v) == [x \in DOMAIN m \cup {k} |-> IF x = k THEN v ELSE m[x]]

(* Runner::make_manifest, lines 114-122: the declaration as registered;  *)
(* a registered path is the sequence of its parts, <<>> for None           *)
Rewritten(dependency) ==
    [dependency EXCEPT !.path = IF @ = "None" THEN <<>> ELSE Join(ManifestDir, @)]

(* Runner::make_manifest, lines 105-112: the unit under test *)
UnitUnderTest == [version |-> "None", path |-> <<ManifestDir>>]

(* Runner::make_manifest, lines 105-122: the dependencies of the manifest *)
Dependencies(ds) ==
    LET F[i \in 0..Len(DepOrder)] ==
            IF i = 0 THEN Insert(<<>>, CrateName, UnitUnderTest)
            ELSE IF DepOrder[i] \in DOMAIN ds
                 THEN Insert(F[i - 1], DepOrder[i], Rewritten(ds[DepOrder[i]]))
                 ELSE F[i - 1]
    IN  F[Len(DepOrder)]

(* Runner::make_manifest, lines 124-136: the bins of the manifest *)
BinsBuggy(exp) ==
    LET F[i \in 0..Len(exp)] ==
            IF i = 0
            THEN <<[name |-> ProjectName, path |-> <<"main.rs">>]>>
            ELSE IF /\ exp[i].error = NoError
                    /\ \A k \in 1..Len(F[i - 1]) :
                          F[i - 1][k].name # TestName(exp[i].test)
                 THEN Append(F[i - 1], [name |-> TestName(exp[i].test),
                                        path |-> <<ManifestDir, exp[i].test.path>>])
                 ELSE F[i - 1]
    IN  F[Len(exp)]
Bins(exp) ==
    LET F[i \in 0..Len(exp)] ==
            IF i = 0
            THEN <<[name |-> ProjectName, path |-> <<"main.rs">>]>>
            ELSE IF exp[i].error = NoError
                 THEN Append(F[i - 1], [name |-> TestName(exp[i].test),
                                        path |-> <<ManifestDir, exp[i].test.path>>])
                 ELSE F[i - 1]
    IN  F[Len(exp)]

(* Runner::make_manifest *)
make_manifest(ds, exp) ==
    [package |-> ProjectName,
     dependencies |-> Dependencies(ds),
     bins |-> Bins(exp)]

(* the calls prepare makes when its first failing step is `stop`           *)
(* (NSteps + 1: no step fails)                                             *)
PrepareEvents(stop) ==
    LET F[k \in 0..NSteps] ==
            IF k = 0 THEN <<>>
            ELSE IF k <= stop /\ PrepareSteps[k] \in Effectful
                 THEN Append(F[k - 1], EvCargo(PrepareSteps[k], 0, ProjectName))
                 ELSE F[k - 1]
    IN  F[NSteps]

(* the project files written when prepare fails at step `stop` *)
Written(stop) ==
    {PrepareSteps[k] : k \in {j \in 1..NSteps :
        j < stop /\ PrepareSteps[j] \in {"write_config", "write_manifest", "write_main"}}}

----------------------------------------------------------------------------
(* The run *)

NoPanic == [kind |-> "none", failures |-> 0, len |-> 0]
NoLast == [test |-> 0] @@ Result(<<>>)
NoManifest == [package |-> "", dependencies |-> <<>>, bins |-> <<>>]
NoProject == [result |-> "None", written |-> {}, manifest |-> NoManifest]
NoPromotion == [path |-> NoPath, raw |-> <<>>, content |-> NoFile]

RelevantFixtures(ts, fs) ==
    LET exp == expand_globs(ts, fs)
    IN  {WithExtensionStderr(exp[i].test.path) :
            i \in {j \in 1..Len(exp) : /\ exp[j].error = NoError
                                       /\ exp[j].test.expected = "CompileFail"
                                       /\ exp[j].test.path \in fs}}

RelevantSrcs(ts) ==
    {p \in SrcPaths : \E i \in 1..Len(ts) :
        \/ ts[i].path = p
        \/ ContainsStar(ts[i].path) /\ ts[i].path.dir = p.dir}

(* the state in which Runner::run is called *)
Called ==
    /\ pc = "start"
    /\ expanded = <<>>
    /\ idx = 0
    /\ failures = 0
    /\ outcome = <<>>
    /\ last = NoLast
    /\ project = NoProject
    /\ panicMsg = NoPanic
    /\ events = <<>>

(* Runner's tests are any declarations, with no extra dependency; the     *)
(* filesystem holds any subset of the sources they can name and any        *)
(* content at the fixture paths the run can look at (the other paths hold  *)
(* no file).                                                               *)
Init ==
    /\ tests \in SeqUpTo(TestSpecs, MaxTests)
    /\ deps = NoDeps
    /\ srcs \in SUBSET RelevantSrcs(tests)
    /\ Len(expand_globs(tests, srcs)) <= MaxTests
    /\ \E f \in [RelevantFixtures(tests, srcs) ->
                   Contents(Len(expand_globs(tests, srcs)))] :
          files = [p \in StderrPaths |->
                     IF p \in DOMAIN f THEN f[p] ELSE NoFile]
    /\ files0 = files
    /\ runNo = 1
    /\ promoted = NoPromotion
    /\ Called

(* Runner::run, line 25: let tests = expand_globs(&self.tests) *)
RunnerRunExpand ==
    /\ pc = "start"
    /\ expanded' = expand_globs(tests, srcs)
    /\ pc' = "prepare"
    /\ UNCHANGED <<tests, deps, srcs, files, idx, failures, outcome, last,
                   project, panicMsg, events, files0, runNo, promoted>>

(* Runner::run, lines 27-30: where the run goes when prepare returns *)
AfterPrepareBuggy(ok) == "loop"
AfterPrepare(ok) == IF ok THEN "loop" ELSE "panicked"

(* Runner::run, lines 27-36: prepare; on Err, message::prepare_fail and    *)
(* panic!("tests failed"); on Ok, len and failures are initialised         *)
RunnerRunPrepare ==
    /\ pc = "prepare"
    /\ \E stop \in 1..(NSteps + 1) :
         LET ok == stop > NSteps
         IN  /\ events' = events \o PrepareEvents(stop)
             /\ project' = [result |-> IF ok THEN "Ok" ELSE "Err",
                            written |-> Written(stop),
                            manifest |-> IF "write_manifest" \in Written(stop)
                                         THEN make_manifest(deps, expanded)
                                         ELSE NoManifest]
             /\ pc' = AfterPrepare(ok)
             /\ IF AfterPrepare(ok) = "panicked"
                THEN /\ panicMsg' = [kind |-> "tests failed", failures |-> 0,
                                     len |-> 0]
                     /\ UNCHANGED <<idx, failures>>
                ELSE /\ idx' = 1
                     /\ failures' = 0
                     /\ UNCHANGED panicMsg
    /\ UNCHANGED <<tests, deps, srcs, files, expanded, outcome, last, files0, runNo,
                   promoted>>

(* Runner::run, lines 38-39: the notice of a run without tests *)
NoTestsNoticeBuggy(exp) == <<>>
NoTestsNotice(exp) ==
    IF Len(exp) = 0 THEN <<EvCargo("no_tests_enabled", 0, "")>> ELSE <<>>

(* Runner::run, lines 38-39: message::no_tests_enabled *)
RunnerRunNoTests ==
    /\ pc = "loop"
    /\ Len(expanded) = 0
    /\ events' = events \o NoTestsNotice(expanded)
    /\ pc' = "finish"
    /\ UNCHANGED <<tests, deps, srcs, files, expanded, idx, failures, outcome,
                   last, project, panicMsg, files0, runNo, promoted>>

(* Runner::run, lines 42-45: the tally of a test's Result *)
TallyBuggy(n, kind) == IF kind # "Ok" THEN 1 ELSE n
Tally(n, kind) == IF kind # "Ok" THEN n + 1 ELSE n

(* Runner::run, line 41: where the loop goes after test i of n *)
LoopNextBuggy(i, n, kind) == IF i = n \/ kind # "Ok" THEN "finish" ELSE "loop"
LoopNext(i, n, kind) == IF i = n THEN "finish" ELSE "loop"

(* Runner::run, lines 41-46: one iteration of the loop, the whole of       *)
(* test.run(&project) and the tally of its Result                          *)
RunnerRunTest ==
    /\ pc = "loop"
    /\ idx <= Len(expanded)
    /\ \E r \in ExpandedTestRun(idx, expanded[idx], srcs, files) :
             /\ files' = r.files
             /\ events' = events \o r.evs
             /\ outcome' = Append(outcome, r.kind)
             /\ failures' = Tally(failures, r.kind)
             /\ last' = [test |-> idx] @@ [r EXCEPT !.evs = <<>>, !.files = <<>>]
             /\ pc' = LoopNext(idx, Len(expanded), r.kind)
    /\ idx' = idx + 1
    /\ UNCHANGED <<tests, deps, srcs, expanded, project, panicMsg, files0, runNo,
                   promoted>>

(* Runner::run, lines 52-54: the decision to panic *)
ShouldPanic(n) == n > 0

(* Runner::run, lines 49-54: panic if failures > 0, else return *)
RunnerRunEnd ==
    /\ pc = "finish"
    /\ IF ShouldPanic(failures)
       THEN /\ pc' = "panicked"
            /\ panicMsg' = [kind |-> "of tests failed", failures |-> failures,
                            len |-> Len(expanded)]
       ELSE /\ pc' = "returned"
            /\ UNCHANGED panicMsg
    /\ UNCHANGED <<tests, deps, srcs, files, expanded, idx, failures, outcome,
                   last, project, events, files0, runNo, promoted>>

Next ==
    \/ RunnerRunExpand
    \/ RunnerRunPrepare
    \/ RunnerRunNoTests
    \/ RunnerRunTest
    \/ RunnerRunEnd

Spec == Init /\ [][Next]_vars

----------------------------------------------------------------------------
(* Two runs over the same declarations, with the developer's promotion of  *)
(* a staged file in between (spec, 4.4: "for manual promotion by the       *)
(* developer").                                                            *)

Ended == pc \in {"returned", "panicked"}

(* the most recent test bootstrapped its fixture *)
Bootstrapped ==
    /\ last.test > 0
    /\ last.looked /\ ~last.fixture.exists
    /\ outcome[last.test] = "Ok"

(* the developer copies the file the last test staged to its fixture path *)
Promote ==
    /\ Ended
    /\ runNo < MaxRuns
    /\ promoted = NoPromotion
    /\ Bootstrapped
    /\ LET fixture_path == WithExtensionStderr(expanded[last.test].test.path)
           staged == files[WipPath(fixture_path)]
       IN  /\ files' = [files EXCEPT ![fixture_path] = staged]
           /\ promoted' = [path |-> fixture_path, raw |-> last.raw,
                           content |-> staged]
    /\ UNCHANGED <<tests, deps, srcs, pc, expanded, idx, failures, outcome, last,
                   project, panicMsg, events, files0, runNo>>

(* the harness is run again *)
Rerun ==
    /\ Ended
    /\ runNo < MaxRuns
    /\ runNo' = runNo + 1
    /\ files0' = files
    /\ pc' = "start"
    /\ expanded' = <<>>
    /\ idx' = 0
    /\ failures' = 0
    /\ outcome' = <<>>
    /\ last' = NoLast
    /\ project' = NoProject
    /\ panicMsg' = NoPanic
    /\ events' = <<>>
    /\ UNCHANGED <<tests, deps, srcs, files, promoted>>

(* one compile-fail spec is declared and no fixture exists yet *)
InitRoundTrip ==
    /\ Init
    /\ Len(tests) = 1
    /\ tests[1].expected = "CompileFail"
    /\ \A p \in StderrPaths : ~files[p].exists

NextRoundTrip == Next \/ Promote \/ Rerun

SpecRoundTrip == InitRoundTrip /\ [][NextRoundTrip]_vars

----------------------------------------------------------------------------
(* The expansion alone: any declarations over any filesystem *)

InitExpand ==
    /\ tests \in SeqUpTo(TestSpecs, MaxSpecs)
    /\ deps = NoDeps
    /\ srcs \in SUBSET SrcPaths
    /\ files = [p \in StderrPaths |-> NoFile]
    /\ files0 = files
    /\ runNo = 1
    /\ promoted = NoPromotion
    /\ Called

NextExpand == RunnerRunExpand

SpecExpand == InitExpand /\ [][NextExpand]_vars

----------------------------------------------------------------------------
(* The preparation alone: any declarations with any extra dependencies *)

InitManifest ==
    /\ tests \in SeqUpTo(TestSpecs, MaxTests)
    /\ deps \in DepsUpTo(MaxDeps)
    /\ srcs \in SUBSET RelevantSrcs(tests)
    /\ Len(expand_globs(tests, srcs)) <= MaxTests
    /\ files = [p \in StderrPaths |-> NoFile]
    /\ files0 = files
    /\ runNo = 1
    /\ promoted = NoPromotion
    /\ Called

NextManifest == RunnerRunExpand \/ RunnerRunPrepare

SpecManifest == InitManifest /\ [][NextManifest]_vars

----------------------------------------------------------------------------
(* Vocabulary of the properties *)

NErr == Cardinality({i \in 1..Len(outcome) : outcome[i] # "Ok"})
Decided == pc = "returned" \/ (pc = "panicked" /\ project.result = "Ok")
LastTest == expanded[last.test].test
LastKind == outcome[last.test]
LastFixturePath == WithExtensionStderr(LastTest.path)
LastIs(expected) == last.test > 0 /\ LastTest.expected = expected
LastDid(op) == Count(events, op, last.test)
TestEvents == SelectSeq(events, LAMBDA e : e.test > 0)
Begun == SelectSeq(events, LAMBDA e : e.op = "begin_test")

(* the fixture paths of the run's compile-fail tests *)
FixturePaths ==
    {WithExtensionStderr(expanded[i].test.path) :
        i \in {j \in 1..Len(expanded) : /\ expanded[j].error = NoError
                                        /\ expanded[j].test.expected = "CompileFail"}}

(* C1: once prepare has succeeded, the tests are begun one by one in the   *)
(* order of the expanded list, each once, the effects of one test never    *)
(* interleave with those of another, a failed test does not stop the loop, *)
(* and the run returns or panics over its tests only when every expanded   *)
(* test has a result.                                                      *)
C1_EveryTestOnceInOrder ==
    /\ Len(Begun) = Len(outcome)
    /\ \A k \in 1..Len(Begun) :
          Begun[k].test = k /\ Begun[k].path = expanded[k].test.path
    /\ \A k \in 1..(Len(TestEvents) - 1) :
          TestEvents[k].test <= TestEvents[k + 1].test
    /\ (pc = "loop") => (idx = Len(outcome) + 1 /\ idx <= Len(expanded) + 1)
    /\ (pc = "finish" \/ Decided) => Len(outcome) = Len(expanded)

C1_Witness ==
    /\ pc = "panicked"
    /\ Len(expanded) = 2
    /\ Len(outcome) = 2
    /\ outcome[1] # "Ok"
    /\ outcome[2] = "Ok"

(* C2: the run panics iff prepare failed or some test returned an error;   *)
(* when it panics over its tests, the count it reports is the number of    *)
(* tests that returned an error and the total is the number of expanded    *)
(* tests.                                                                  *)
C2_PanicsIffFailure ==
    (pc \in {"returned", "panicked"}) =>
        /\ (pc = "panicked") <=> (project.result = "Err" \/ NErr > 0)
        /\ (pc = "panicked" /\ project.result = "Ok") =>
              /\ panicMsg.kind = "of tests failed"
              /\ panicMsg.failures = NErr
              /\ panicMsg.len = Len(expanded)
        /\ (pc = "panicked" /\ project.result = "Err") =>
              panicMsg.kind = "tests failed"

C2_Witness ==
    /\ pc = "panicked"
    /\ panicMsg.failures = 2
    /\ panicMsg.len = 2

(* C3: when prepare fails the run panics at once: no test is begun, no     *)
(* test is built or run, and no staging file is written.                   *)
C3_PrepareFailureRunsNothing ==
    (project.result = "Err") =>
        /\ pc = "panicked"
        /\ outcome = <<>>
        /\ \A k \in 1..Len(events) :
              /\ events[k].test = 0
              /\ events[k].op \notin {"begin_test", "build_test", "run_test",
                                      "create_dir_all_wip", "write_wip"}
        /\ files = files0

C3_Witness ==
    /\ project.result = "Err"
    /\ Len(expanded) = 2
    /\ "write_main" \in project.written

(* the case of C4: the last test is a compile-fail test whose build failed *)
(* and whose fixture was not there                                         *)
C4_Case ==
    /\ LastIs("CompileFail")
    /\ last.built /\ ~last.success
    /\ last.looked /\ ~last.fixture.exists

C4_Staged ==
    /\ \E k \in 1..Len(events) :
          events[k] = Ev("write_wip", last.test, WipPath(LastFixturePath),
                         last.stderr)
    /\ WipPath(LastFixturePath).dir = WipDir
    /\ files[WipPath(LastFixturePath)] = TextFile(last.stderr)

(* C4 as claimed: a compile-fail test whose build failed and whose fixture *)
(* is missing always stages the normalized diagnostics and succeeds.       *)
C4_BootstrapNeverFails ==
    C4_Case => (LastKind = "Ok" /\ C4_Staged /\ failures = NErr)

(* C4 as amended: such a test succeeds, with the normalized diagnostics    *)
(* staged and nothing added to the failure count, unless creating the      *)
(* staging directory fails (Io, nothing written) or writing the staged     *)
(* file fails (WriteStderr); then it is counted as a failure.              *)
C4_BootstrapFailsOnlyOnStagingError ==
    C4_Case =>
        /\ LastKind \in {"Ok", "Io", "WriteStderr"}
        /\ (LastKind = "Ok") => C4_Staged
        /\ (LastKind = "Io") => LastDid("write_wip") = 0
        /\ (LastKind = "WriteStderr") => LastDid("write_wip") = 1
        /\ LastDid("read_fixture") = 0
        /\ failures = NErr

C4_Witness ==
    /\ C4_Case
    /\ LastKind = "Ok"
    /\ last.stderr # <<>>
    /\ failures = 0
    /\ pc = "returned"

(* C5: the harness never writes to the fixture path of any test: every     *)
(* staged file goes under the staging directory to a path that is no       *)
(* test's fixture path, and a fixture that existed before the run is       *)
(* unchanged.                                                              *)
C5_NeverWritesFixturePath ==
    /\ \A k \in 1..Len(events) :
          (events[k].op = "write_wip") =>
              /\ events[k].path.dir = WipDir
              /\ events[k].path \notin FixturePaths
    /\ \A p \in FixturePaths \cap StderrPaths :
          files0[p].exists => files[p] = files0[p]

(* the case of C6: a second run's compile-fail test whose fixture is the   *)
(* promoted file and whose build fails with the raw diagnostics of the     *)
(* bootstrap that staged it                                                *)
C6_Case ==
    /\ runNo > 1
    /\ promoted # NoPromotion
    /\ LastIs("CompileFail")
    /\ LastFixturePath = promoted.path
    /\ last.built /\ ~last.success
    /\ last.raw = promoted.raw
    /\ last.looked /\ last.fixture = promoted.content

(* C6: when the file a compile-fail test's bootstrap staged is promoted to *)
(* its fixture, a later run in which that test's build fails with the same *)
(* raw diagnostics, and finds the fixture as promoted, reports the test as *)
(* succeeded.                                                              *)
C6_RoundTrip == C6_Case => LastKind = "Ok"

C6_Witness ==
    /\ C6_Case
    /\ promoted.raw # promoted.content.text
    /\ pc = "returned"

(* the case of C7: the last test is a compile-fail test whose build failed *)
(* and whose fixture was there                                             *)
C7_Case ==
    /\ LastIs("CompileFail")
    /\ last.built /\ ~last.success
    /\ last.looked /\ last.fixture.exists

C7_Verdict ==
    /\ (LastKind = "Ok") <=> (ReplaceCRLF(last.fixture.text) = last.stderr)
    /\ (LastKind # "Ok") => (LastKind = "Mismatch")

C7_NothingStaged ==
    /\ LastDid("write_wip") = 0
    /\ LastDid("create_dir_all_wip") = 0

(* C7 as claimed: with an existing fixture the test succeeds iff the       *)
(* fixture's text, CRLF replaced by LF, equals the normalized diagnostics, *)
(* fails with Mismatch otherwise, and stages nothing.                      *)
C7_ExistingFixtureDecides ==
    C7_Case => (C7_Verdict /\ C7_NothingStaged)

(* C7 as amended: the same, provided the fixture can be read as UTF-8      *)
(* text; when reading it fails the test fails with ReadStderr; in no case  *)
(* is anything staged.                                                     *)
C7_ReadableFixtureDecides ==
    C7_Case =>
        /\ last.fixture.utf8 => C7_Verdict
        /\ ~last.fixture.utf8 => LastKind = "ReadStderr"
        /\ C7_NothingStaged
        /\ LastDid("read_fixture") = 1

C7_Witness ==
    /\ C7_Case
    /\ LastKind = "Ok"
    /\ last.fixture.text # last.stderr

(* C8: a compile-fail test whose build succeeds fails with                 *)
(* ShouldNotHaveCompiled whether or not its fixture exists; its binary is  *)
(* not run, its fixture is neither looked for nor read, nothing is staged. *)
C8_ShouldNotHaveCompiled ==
    (LastIs("CompileFail") /\ last.built /\ last.success) =>
        /\ LastKind = "ShouldNotHaveCompiled"
        /\ last.ran = "no" /\ LastDid("run_test") = 0
        /\ ~last.looked
        /\ LastDid("stat_fixture") = 0 /\ LastDid("read_fixture") = 0
        /\ LastDid("write_wip") = 0 /\ LastDid("create_dir_all_wip") = 0

C8_Witness ==
    /\ LastIs("CompileFail") /\ last.built /\ last.success
    /\ files[LastFixturePath].exists
    /\ files[LastFixturePath].utf8

(* C9: a pass test whose build returned a status that is not success       *)
(* fails with CargoFail and is counted; its binary is not run.             *)
C9_BuildFailureIsReported ==
    (LastIs("Pass") /\ last.built /\ ~last.success) =>
        /\ LastKind = "CargoFail"
        /\ failures = NErr /\ failures >= 1
        /\ last.ran = "no" /\ LastDid("run_test") = 0

C9_Witness ==
    /\ LastIs("Pass") /\ last.built /\ ~last.success
    /\ pc = "panicked"
    /\ panicMsg.failures = 1
    /\ panicMsg.len = 2

(* C10: a pass test whose build succeeded has its binary run once; it      *)
(* succeeds iff that run exits successfully, fails with RunFailed when the *)
(* run exits unsuccessfully, and no fixture is looked for, read or staged. *)
C10_PassDecidedByRun ==
    (LastIs("Pass") /\ last.built /\ last.success) =>
        /\ LastDid("run_test") = 1
        /\ (LastKind = "Ok") <=> (last.ran = "ok")
        /\ (last.ran = "fail") => (LastKind = "RunFailed")
        /\ ~last.looked
        /\ LastDid("stat_fixture") = 0 /\ LastDid("read_fixture") = 0
        /\ LastDid("write_wip") = 0

C10_Witness ==
    /\ LastIs("Pass") /\ last.built /\ last.success
    /\ last.ran = "ok"
    /\ files[LastFixturePath].exists

(* the "no tests enabled" notice, as often as the run emitted it *)
Notices == Count(events, "no_tests_enabled", 0)

(* C11 as claimed: a run over an empty declaration list emits the "no      *)
(* tests enabled" notice and returns normally, no test executed.           *)
C11_EmptyListSucceeds ==
    (tests = <<>> /\ Ended) =>
        /\ pc = "returned"
        /\ Notices = 1
        /\ outcome = <<>> /\ TestEvents = <<>>

(* C11 as amended: a run over an empty declaration list whose preparation  *)
(* succeeds emits the notice once and returns normally, no test executed;  *)
(* when preparation fails it panics with "tests failed" and emits no       *)
(* notice.                                                                 *)
C11_EmptyListSucceedsOncePrepared ==
    (tests = <<>> /\ Ended) =>
        /\ outcome = <<>> /\ TestEvents = <<>>
        /\ (project.result = "Ok") =>
              (pc = "returned" /\ Notices = 1 /\ panicMsg = NoPanic)
        /\ (project.result = "Err") =>
              (pc = "panicked" /\ Notices = 0 /\ panicMsg.kind = "tests failed")

C11_Witness ==
    /\ tests = <<>>
    /\ pc = "returned"
    /\ Notices = 1
    /\ "write_manifest" \in project.written

(* the names Test::name derives for the expanded tests, and the expanded   *)
(* tests that carry no error                                               *)
Names == [k \in 1..Len(expanded) |-> TestName(expanded[k].test)]
ErrorFree == SelectSeq(expanded, LAMBDA e : e.error = NoError)
ManifestWritten == "write_manifest" \in project.written
SameStem(s, t) == s = t \/ {s, t} = {"a-b", "a_b"}

(* C12 as claimed: after glob expansion the names of the expanded tests    *)
(* are pairwise distinct, and so are the names of the manifest's bins.     *)
C12_NamesDistinct ==
    /\ \A i, j \in 1..Len(expanded) : (i # j) => Names[i] # Names[j]
    /\ \A i, j \in 1..Len(project.manifest.bins) :
          (i # j) => project.manifest.bins[i].name # project.manifest.bins[j].name

(* C12 as amended: two expanded tests have the same name exactly when      *)
(* their file stems are equal once '-' is read as '_', whatever their      *)
(* directories; nothing filters such collisions: the manifest holds the    *)
(* entry bin and then one bin per error-free expanded test, in order,      *)
(* under the test's name and path, and each per-test build is invoked      *)
(* under the name of its test.                                             *)
C12_OneBinPerTestCollisionsKept ==
    /\ \A i, j \in 1..Len(expanded) :
          (Names[i] = Names[j]) <=>
              SameStem(expanded[i].test.path.stem, expanded[j].test.path.stem)
    /\ ManifestWritten =>
          /\ Len(project.manifest.bins) = 1 + Len(ErrorFree)
          /\ project.manifest.bins[1].name = ProjectName
          /\ \A r \in 1..Len(ErrorFree) :
                project.manifest.bins[1 + r] =
                    [name |-> TestName(ErrorFree[r].test),
                     path |-> <<ManifestDir, ErrorFree[r].test.path>>]
    /\ \A k \in 1..Len(events) :
          (events[k].op \in {"build_test", "run_test"}) =>
              events[k].name = Names[events[k].test]

C12_Witness ==
    /\ ManifestWritten
    /\ Len(expanded) = 2
    /\ Names[1] = Names[2]
    /\ expanded[1].test.path # expanded[2].test.path
    /\ Count(events, "build_test", 1) = 1
    /\ Count(events, "build_test", 2) = 1
    /\ project.manifest.bins[2].name = project.manifest.bins[3].name

(* what the filesystem and the declarations say about the expansion: the   *)
(* files a pattern matches, how many expanded tests spec i stands for, and *)
(* how many stand before it                                                *)
Matching(pattern) ==
    {p \in srcs : p.dir = pattern.dir /\ p.ext = pattern.ext}
Contribution(i) ==
    IF ContainsStar(tests[i].path) /\ GlobOk(tests[i].path)
    THEN Cardinality(Matching(tests[i].path))
    ELSE 1
Offset(i) ==
    LET F[j \in 0..Len(tests)] ==
            IF j = 0 THEN 0 ELSE F[j - 1] + Contribution(j)
    IN  F[i - 1]
Expanded == pc # "start"
FailedPattern(i) == ContainsStar(tests[i].path) /\ ~GlobOk(tests[i].path)
EventsOfTest(k) == SelectSeq(events, LAMBDA e : e.test = k)

(* C13: a wildcard spec whose resolution fails stands in the expanded list *)
(* as one test, the spec itself with the error, where the spec stood; at   *)
(* its turn it fails with that error and counts as one failure, its only   *)
(* effect being the begin-test message (no existence check, no build, no   *)
(* run); the loop goes on over the other tests, and only specs whose       *)
(* resolution failed carry an error.                                       *)
C13_FailedPatternDeferred ==
    Expanded =>
        /\ \A i \in 1..Len(tests) :
              FailedPattern(i) =>
                  LET k == Offset(i) + 1
                  IN  /\ k <= Len(expanded)
                      /\ expanded[k] = [test |-> tests[i], error |-> "Pattern"]
                      /\ (k <= Len(outcome)) =>
                            /\ outcome[k] = "Pattern"
                            /\ EventsOfTest(k) =
                                  <<Ev("begin_test", k, tests[i].path, <<>>)>>
        /\ Cardinality({k \in 1..Len(expanded) : expanded[k].error # NoError})
              = Cardinality({i \in 1..Len(tests) : FailedPattern(i)})
        /\ failures = NErr
        /\ (pc = "finish" \/ Decided) => Len(outcome) = Len(expanded)
        /\ \A k \in 1..Len(outcome) :
              (expanded[k].error = NoError /\ expanded[k].test.path \in srcs)
                  => Count(events, "build_test", k) = 1

C13_Witness ==
    /\ Len(tests) = 2
    /\ FailedPattern(1)
    /\ outcome = <<"Pattern", "Ok">>
    /\ pc = "panicked"
    /\ panicMsg.failures = 1
    /\ panicMsg.len = 2

MissingSource(i) == ~ContainsStar(tests[i].path) /\ tests[i].path \notin srcs

(* C14: a spec without wildcard whose source does not exist stays in the   *)
(* expanded list where it stood, without error; at its turn it fails with  *)
(* Open after the begin-test message that names its path, no build and no  *)
(* run being invoked for it, it counts as one failure, and the run ends    *)
(* only when every expanded test has its result.                           *)
C14_MissingSourceFailsAtItsTurn ==
    Expanded =>
        /\ \A i \in 1..Len(tests) :
              MissingSource(i) =>
                  LET k == Offset(i) + 1
                  IN  /\ k <= Len(expanded)
                      /\ expanded[k] = [test |-> tests[i], error |-> NoError]
                      /\ (k <= Len(outcome)) =>
                            /\ outcome[k] = "Open"
                            /\ EventsOfTest(k) =
                                  <<Ev("begin_test", k, tests[i].path, <<>>)>>
        /\ \A k \in 1..Len(outcome) :
              (outcome[k] = "Open") =>
                  /\ expanded[k].test.path \notin srcs
                  /\ Count(events, "build_test", k) = 0
                  /\ Count(events, "run_test", k) = 0
        /\ failures = NErr
        /\ (pc = "finish" \/ Decided) => Len(outcome) = Len(expanded)

C14_Witness ==
    /\ Len(tests) = 2
    /\ MissingSource(1)
    /\ outcome = <<"Open", "Ok">>
    /\ Count(events, "build_test", 2) = 1
    /\ pc = "panicked"
    /\ panicMsg.failures = 1

StemIndex(stem) == CHOOSE n \in 1..Len(StemOrder) : StemOrder[n] = stem
Resolved(i) == ContainsStar(tests[i].path) /\ GlobOk(tests[i].path)

(* C15: a wildcard spec whose resolution matches N files stands in the     *)
(* expanded list as N tests, right after the tests of the specs before it  *)
(* and right before those of the specs after it: the N matched paths, in   *)
(* the order glob yields them, each without error and with the spec's      *)
(* expected outcome; for N = 0 it stands for no test and no error.         *)
C15_PatternExpandsToItsMatches ==
    Expanded =>
        /\ Len(expanded) = Offset(Len(tests) + 1)
        /\ \A i \in 1..Len(tests) :
              IF Resolved(i)
              THEN LET N == Cardinality(Matching(tests[i].path))
                       at(r) == expanded[Offset(i) + r]
                   IN  /\ Offset(i + 1) = Offset(i) + N
                       /\ \A r \in 1..N :
                             /\ at(r).error = NoError
                             /\ at(r).test.expected = tests[i].expected
                             /\ at(r).test.path \in Matching(tests[i].path)
                       /\ \A r, q \in 1..N :
                             (r < q) => StemIndex(at(r).test.path.stem)
                                          < StemIndex(at(q).test.path.stem)
              ELSE /\ Offset(i + 1) = Offset(i) + 1
                   /\ expanded[Offset(i) + 1].test = tests[i]
        /\ Cardinality({k \in 1..Len(expanded) : expanded[k].error # NoError})
              = Cardinality({i \in 1..Len(tests) : FailedPattern(i)})

C15_Witness ==
    /\ Expanded
    /\ Len(tests) = 3
    /\ ~ContainsStar(tests[1].path) /\ ~ContainsStar(tests[3].path)
    /\ Resolved(2) /\ tests[2].expected = "CompileFail"
    /\ Len(expanded) = 4
    /\ expanded[2].test.path.stem = "a-b"
    /\ expanded[3].test.path.stem = "a_b"
    /\ expanded[4].test = tests[3]

(* C16: over specs none of which has a wildcard, expand_globs is the       *)
(* identity whatever the filesystem holds: as many expanded tests as       *)
(* specs, the i-th being the i-th spec, path and expected outcome, without *)
(* error.                                                                  *)
C16_IdentityWithoutWildcard ==
    (Expanded /\ \A i \in 1..Len(tests) : ~ContainsStar(tests[i].path)) =>
        /\ Len(expanded) = Len(tests)
        /\ \A i \in 1..Len(tests) :
              expanded[i] = [test |-> tests[i], error |-> NoError]

C16_Witness ==
    /\ Expanded
    /\ Len(tests) = 3
    /\ \A i \in 1..Len(tests) : ~ContainsStar(tests[i].path)
    /\ tests[1] = tests[3] /\ tests[1] # tests[2]
    /\ srcs = {tests[2].path}
    /\ Len(expanded) = 3

(* the calls that write the throwaway project, and those a test makes *)
ProjectWrites == {"create_dir_all", "write_config", "write_manifest", "write_main"}
TestOps ==
    {"begin_test", "build_test", "run_test", "stat_fixture", "read_fixture",
     "create_dir_all_wip", "write_wip"}
TestWrites == {"create_dir_all_wip", "write_wip"}

(* C17: the project's files are written by prepare only, each once, before *)
(* the first test begins; from then on the harness writes nothing but the  *)
(* staging directory and files in it, and no other file changes.           *)
C17_ProjectWrittenOnceTestsWriteStagingOnly ==
    /\ \A k \in 1..Len(events) :
          /\ (events[k].op \in ProjectWrites) =>
                /\ events[k].test = 0
                /\ \A j \in 1..k : events[j].test = 0
                /\ \A j \in 1..Len(events) :
                      (events[j].op = events[k].op) => j = k
          /\ (events[k].test > 0) =>
                /\ events[k].op \in TestOps
                /\ (events[k].op \in TestWrites) => events[k].path.dir = WipDir
    /\ (outcome # <<>>) => project.written = {"write_config", "write_manifest", "write_main"}
    /\ \A p \in StderrPaths : (files[p] # files0[p]) => p.dir = WipDir

C17_Witness ==
    /\ pc = "returned"
    /\ Len(expanded) = 2
    /\ Count(events, "write_wip", 1) = 1
    /\ Count(events, "write_wip", 2) = 1
    /\ Count(events, "write_manifest", 0) = 1
    /\ \E p \in StderrPaths : files[p] # files0[p]

Prebuilds == Count(events, "build_dependencies", 0)
AllWritten == {"write_config", "write_manifest", "write_main"}
Buildable(k) == expanded[k].error = NoError /\ expanded[k].test.path \in srcs
Before(op, k) == \E j \in 1..(k - 1) : events[j].op = op

(* the order of the builds and runs: the pre-build after the three writes  *)
(* and before every per-test build; one build, under its own name, for     *)
(* every executed test that has no error and whose source exists, none for *)
(* the others; at most one run per test, after its build returned success  *)
C18_BuildsInOrder ==
    /\ \A k \in 1..Len(events) :
          /\ (events[k].op = "build_dependencies") =>
                /\ \A w \in AllWritten : Before(w, k)
                /\ \A j \in 1..k : events[j].op \notin {"build_test", "run_test"}
          /\ (events[k].op = "build_test") =>
                /\ Before("build_dependencies", k)
                /\ events[k].name = TestName(expanded[events[k].test].test)
          /\ (events[k].op = "run_test") =>
                /\ events[k - 1] = EvCargo("build_test", events[k].test,
                                           TestName(expanded[events[k].test].test))
    /\ \A k \in 1..Len(outcome) :
          /\ Count(events, "build_test", k) = IF Buildable(k) THEN 1 ELSE 0
          /\ Count(events, "run_test", k) <= 1
    /\ (last.test > 0 /\ LastDid("run_test") = 1) =>
          (last.built /\ last.success)

(* C18 as claimed: every run invokes the dependency pre-build exactly      *)
(* once, and the builds and runs come in the order above.                  *)
C18_PrebuildOnceInEveryRun ==
    /\ Ended => Prebuilds = 1
    /\ C18_BuildsInOrder

(* C18 as amended: the pre-build is invoked at most once, and exactly once *)
(* in the runs whose preparation wrote the config, the manifest and the    *)
(* entry source; a preparation that fails earlier never invokes it, and    *)
(* then no test is built.  The builds and runs come in the order above.    *)
C18_PrebuildOnceWhenProjectWritten ==
    /\ Prebuilds <= 1
    /\ (pc \notin {"start", "prepare"}) =>
          ((Prebuilds = 1) <=> (project.written = AllWritten))
    /\ (outcome # <<>>) => Prebuilds = 1
    /\ C18_BuildsInOrder

C18_Witness ==
    /\ pc = "returned"
    /\ Prebuilds = 1
    /\ Len(expanded) = 2
    /\ Count(events, "build_test", 1) = 1 /\ Count(events, "run_test", 1) = 1
    /\ Count(events, "build_test", 2) = 1 /\ Count(events, "run_test", 2) = 0

(* C19: whatever the extra dependencies, the written manifest registers    *)
(* the unit under test under the calling crate's name as a dependency      *)
(* without version whose path is CARGO_MANIFEST_DIR.                       *)
C19_UnitUnderTestIsPathDependency ==
    ManifestWritten =>
        /\ CrateName \in DOMAIN project.manifest.dependencies
        /\ project.manifest.dependencies[CrateName] =
              [version |-> "None", path |-> <<ManifestDir>>]

(* the tests that went into the bootstrap, the staged-file writes of a     *)
(* test, and the case of C20: two executed compile-fail tests, both gone   *)
(* into the bootstrap, whose sources have the same file name in different  *)
(* directories                                                             *)
Staging(k) == Count(events, "create_dir_all_wip", k) = 1
Writes(k) ==
    {n \in 1..Len(events) : events[n].op = "write_wip" /\ events[n].test = k}
SameFileName(i, j) == expanded[i].test.path.stem = expanded[j].test.path.stem
LastStager(j) ==
    \A k \in (j + 1)..Len(outcome) : ~(Staging(k) /\ SameFileName(j, k))
C20_Case(i, j) ==
    /\ i < j /\ j <= Len(outcome)
    /\ expanded[i].test.expected = "CompileFail"
    /\ expanded[j].test.expected = "CompileFail"
    /\ Staging(i) /\ Staging(j)
    /\ SameFileName(i, j)
    /\ expanded[i].test.path.dir # expanded[j].test.path.dir

(* C20 as claimed: such tests all write the same staging file, each is     *)
(* reported as succeeded, and after the run the staged file holds the      *)
(* normalized diagnostics of the last of them.                             *)
C20_SameNameSameStagedFile ==
    \A i, j \in 1..Len(outcome) :
        C20_Case(i, j) =>
            /\ outcome[i] = "Ok" /\ outcome[j] = "Ok"
            /\ \E a \in Writes(i), b \in Writes(j) :
                  /\ events[a].path = events[b].path
                  /\ events[a].path.dir = WipDir
            /\ (Ended /\ LastStager(j)) =>
                  \E b \in Writes(j) :
                      files[events[b].path] = TextFile(events[b].text)

(* C20 as amended: the staging path is the staging directory joined with   *)
(* the fixture's file name, so such tests write the same staging file;     *)
(* each is reported as succeeded unless creating the staging directory     *)
(* (Io, nothing written) or writing the staged file (WriteStderr) fails    *)
(* for it; once the last of them has succeeded, the staged file holds its  *)
(* normalized diagnostics and nothing of the earlier ones.                 *)
C20_SameNameSameStagedFileLastWins ==
    \A i, j \in 1..Len(outcome) :
        C20_Case(i, j) =>
            /\ \A k \in {i, j} :
                  /\ outcome[k] \in {"Ok", "Io", "WriteStderr"}
                  /\ Cardinality(Writes(k)) = IF outcome[k] = "Io" THEN 0 ELSE 1
                  /\ \A a \in Writes(k) :
                        events[a].path =
                            Path(WipDir, expanded[k].test.path.stem, "stderr")
            /\ \A a \in Writes(i), b \in Writes(j) :
                  events[a].path = events[b].path
            /\ (LastStager(j) /\ outcome[j] = "Ok") =>
                  \A b \in Writes(j) :
                      files[events[b].path] = TextFile(events[b].text)
            /\ (j = last.test) =>
                  /\ last.stderr = NormalizeDiagnostics(last.raw)
                  /\ \A b \in Writes(j) : events[b].text = last.stderr

C20_Witness ==
    /\ pc = "returned"
    /\ Len(outcome) = 2
    /\ C20_Case(1, 2)
    /\ \E a \in Writes(1), b \in Writes(2) :
          /\ events[a].text # events[b].text
          /\ events[a].text # <<>>
          /\ files[events[b].path] = TextFile(events[b].text)

====
